---- MODULE Spec2Model ----
(***************************************************************************)
(* MapBuilder of bevy-fast-tilemap (src/map_builder.rs): the constructors, *)
(* the fluent setters and the three build entry points, as a state machine *)
(* over the fields of the map under construction.                          *)
(***************************************************************************)
EXTENDS Integers, Sequences, FiniteSets, TLC

VARIABLES
    pc,                        \* position of the builder / of the running build
    op,                        \* the build entry point that was called ("" before)
    map_size,                  \* map_uniform.map_size, <<x, y>>
    tile_size,                 \* map_uniform.tile_size
    atlas_texture,             \* pixel size of the image behind the atlas handle
    atlas_tile_size_factor,    \* map_uniform.atlas_tile_size_factor
    user_data,                 \* map.user_data
    projection,                \* map_uniform.projection (+ tile_anchor_point)
    force_n_tiles,             \* Option<UVec2>: <<>> is None, <<v>> is Some(v)
    padding,                   \* inner_padding, outer_padding_topleft, outer_padding_bottomright
    dominance_overhangs,
    perspective_overhangs,
    perspective_underhangs,
    force_underhangs,          \* Vec<Vec2>
    map_texture,               \* Vec<u32>, the tile buffer
    inverse_projection,        \* "unset" until update_inverse_projection has run
    world_size,                \* "unset" until update_world_size has run
    sx, sy,                    \* build_and_set's locals
    fn,                        \* build_and_set's callback
    cursor,                    \* build_and_set's loop position, <<x, y>> or Done
    n_sets,                    \* indexer calls the running callback of build_and_initialize has made
    \* history (not read by any action guard)
    steps,                     \* the build steps performed so far, in order
    builds,                    \* number of build calls on this builder
    init_calls,                \* number of times the initializer was invoked
    init_returned,             \* the initializer has run to completion
    filled,                    \* coordinates the fill loop passed to its callback, one by one
    written,                   \* accepted indexer writes: set of <<x, y, v>>, last write wins
    last_overhang_setter,      \* the overhang setter called last ("" for none yet)
    forced                     \* the argument of the last with_forced_underhangs

vars == <<pc, op, map_size, tile_size, atlas_texture, atlas_tile_size_factor,
          user_data, projection, force_n_tiles, padding, dominance_overhangs,
          perspective_overhangs, perspective_underhangs, force_underhangs,
          map_texture, inverse_projection, world_size, sx, sy, fn, cursor,
          n_sets, steps, builds, init_calls, init_returned, filled, written,
          last_overhang_setter, forced>>

config == <<map_size, tile_size, atlas_texture, atlas_tile_size_factor, user_data,
            projection, force_n_tiles, padding, dominance_overhangs,
            perspective_overhangs, perspective_underhangs, force_underhangs>>

build_state == <<map_texture, inverse_projection, world_size, sx, sy, fn, cursor,
                 n_sets, steps, builds, init_calls, init_returned, filled, written>>

history == <<last_overhang_setter, forced>>

(***************************************************************************)
(* Bounds and input sets                                                   *)
(***************************************************************************)
MaxDim == 2          \* small maps have 0..MaxDim tiles per axis
MaxSets == 1         \* indexer calls a build_and_initialize callback makes

U32Bits == 32
Base == 2 ^ 8
HalfRange == 2 ^ (U32Bits \div 2)

Done == <<>>

SmallSizes == (0 .. MaxDim) \X (0 .. MaxDim)
\* 2^16 x 2^16 tiles: the smallest square map whose tile count leaves u32
OverflowSizes == {<<HalfRange, HalfRange>>}
MapSizes == SmallSizes \cup OverflowSizes

TileSizes == {<<16, 16>>}
Atlases == {<<64, 48>>}
Factors == {1, 2}
DefaultUserData == 0
UserDatas == {0, 1}
Projections == {"IDENTITY", "AXONOMETRIC"}
NTiles == {<<>>, <<(<<4, 3>>)>>}
ZeroPadding == [inner |-> <<0, 0>>, topleft |-> <<0, 0>>, bottomright |-> <<0, 0>>]
Paddings == {ZeroPadding,
             [inner |-> <<1, 1>>, topleft |-> <<0, 0>>, bottomright |-> <<0, 0>>]}
Underhangs == {<<(<<-1, 1>>), (<<0, 1>>)>>}
TileVals == {5}
Fns == {"ramp", "const"}

(***************************************************************************)
(* u32 arithmetic of line 160.  A u32 is a little-endian sequence of four  *)
(* base-2^8 digits, the exact product of two of them has eight.            *)
(***************************************************************************)
RECURSIVE Digits(_, _)
Digits(n, k) == IF k = 0 THEN <<>> ELSE <<n % Base>> \o Digits(n \div Base, k - 1)

RECURSIVE ToNat(_)
ToNat(d) == IF d = <<>> THEN 0 ELSE Head(d) + Base * ToNat(Tail(d))

\* column k (from 1) of the schoolbook product of digit sequences a and b:
\* the sum of a[i] * b[k + 1 - i], taken from digit i of a upwards
RECURSIVE Column(_, _, _, _)
Column(a, b, k, i) ==
    IF i > Len(a) THEN 0
    ELSE (IF k + 1 - i \in DOMAIN b THEN a[i] * b[k + 1 - i] ELSE 0)
         + Column(a, b, k, i + 1)

RECURSIVE Carry(_, _)
Carry(cols, c) ==
    IF cols = <<>> THEN <<>>
    ELSE LET t == Head(cols) + c IN <<t % Base>> \o Carry(Tail(cols), t \div Base)

NDigits == U32Bits \div 8

\* the mathematical product x * y of two u32 values, eight digits
FullProduct(x, y) ==
    LET a == Digits(x, NDigits)
        b == Digits(y, NDigits)
    IN  Carry([k \in 1 .. 2 * NDigits |-> Column(a, b, k, 1)], 0)

\* x * y on u32 where the build wraps (overflow checks off): the low 32 bits
WrappingMul(x, y) == SubSeq(FullProduct(x, y), 1, NDigits)

\* x * y does not fit u32: a panic where the build checks overflow
MulOverflows(x, y) ==
    \E k \in NDigits + 1 .. 2 * NDigits : FullProduct(x, y)[k] # 0

(***************************************************************************)
(* Vec::resize(new_len, value)                                             *)
(***************************************************************************)
FillValue == 0

Resize(v, new_len, value) ==
    [i \in 1 .. new_len |-> IF i <= Len(v) THEN v[i] ELSE value]

(***************************************************************************)
(* Construction                                                            *)
(***************************************************************************)
\* what `..default()` leaves in the fields the constructors do not name
MapDefaults ==
    /\ atlas_tile_size_factor = 1
    /\ projection = "IDENTITY"
    /\ force_n_tiles = <<>>
    /\ padding = ZeroPadding
    /\ force_underhangs = <<>>
    /\ map_texture = <<>>
    /\ inverse_projection = "unset"
    /\ world_size = "unset"

BuilderStart ==
    /\ pc = "Configuring"
    /\ op = ""
    /\ sx = 0 /\ sy = 0 /\ fn = "" /\ cursor = Done /\ n_sets = 0
    /\ steps = <<>> /\ builds = 0 /\ init_calls = 0 /\ init_returned = FALSE
    /\ filled = <<>> /\ written = {}
    /\ last_overhang_setter = ""
    /\ forced = <<>>

\* mutant: the overhang flags are left to `..default()`
new_flags_defaulted(size, atlas, tsize) ==
    /\ atlas_texture = atlas
    /\ map_size = size
    /\ tile_size = tsize
    /\ perspective_overhangs = FALSE
    /\ perspective_underhangs = FALSE
    /\ dominance_overhangs = FALSE
    /\ user_data = DefaultUserData
    /\ MapDefaults

new(size, atlas, tsize) ==
    /\ atlas_texture = atlas
    /\ map_size = size
    /\ tile_size = tsize
    /\ perspective_overhangs = TRUE
    /\ perspective_underhangs = TRUE
    /\ dominance_overhangs = FALSE
    /\ user_data = DefaultUserData
    /\ MapDefaults

custom(size, atlas, tsize, data) ==
    /\ atlas_texture = atlas
    /\ map_size = size
    /\ tile_size = tsize
    /\ perspective_overhangs = TRUE
    /\ perspective_underhangs = TRUE
    /\ dominance_overhangs = FALSE
    /\ user_data = data
    /\ MapDefaults

Init ==
    /\ BuilderStart
    /\ \E size \in MapSizes, atlas \in Atlases, tsize \in TileSizes :
          \/ new(size, atlas, tsize)
          \/ \E data \in UserDatas : custom(size, atlas, tsize, data)

(***************************************************************************)
(* Setters (each consumes and returns the builder)                         *)
(***************************************************************************)
with_atlas_tile_size_factor(factor) ==
    /\ pc = "Configuring"
    /\ atlas_tile_size_factor' = factor
    /\ UNCHANGED <<pc, op, map_size, tile_size, atlas_texture, user_data, projection,
                   force_n_tiles, padding, dominance_overhangs, perspective_overhangs,
                   perspective_underhangs, force_underhangs, build_state, history>>

with_user_data(new_user_data) ==
    /\ pc = "Configuring"
    /\ user_data' = new_user_data
    /\ UNCHANGED <<pc, op, map_size, tile_size, atlas_texture, atlas_tile_size_factor,
                   projection, force_n_tiles, padding, dominance_overhangs,
                   perspective_overhangs, perspective_underhangs, force_underhangs,
                   build_state, history>>

with_projection(p) ==
    /\ pc = "Configuring"
    /\ projection' = p
    /\ UNCHANGED <<pc, op, map_size, tile_size, atlas_texture, atlas_tile_size_factor,
                   user_data, force_n_tiles, padding, dominance_overhangs,
                   perspective_overhangs, perspective_underhangs, force_underhangs,
                   build_state, history>>

with_n_tiles(n) ==
    /\ pc = "Configuring"
    /\ force_n_tiles' = n
    /\ UNCHANGED <<pc, op, map_size, tile_size, atlas_texture, atlas_tile_size_factor,
                   user_data, projection, padding, dominance_overhangs,
                   perspective_overhangs, perspective_underhangs, force_underhangs,
                   build_state, history>>

with_padding(inner, topleft, bottomright) ==
    /\ pc = "Configuring"
    /\ padding' = [inner |-> inner, topleft |-> topleft, bottomright |-> bottomright]
    /\ UNCHANGED <<pc, op, map_size, tile_size, atlas_texture, atlas_tile_size_factor,
                   user_data, projection, force_n_tiles, dominance_overhangs,
                   perspective_overhangs, perspective_underhangs, force_underhangs,
                   build_state, history>>

with_dominance_overhang ==
    /\ pc = "Configuring"
    /\ dominance_overhangs' = TRUE
    /\ perspective_overhangs' = FALSE
    /\ perspective_underhangs' = FALSE
    /\ last_overhang_setter' = "with_dominance_overhang"
    /\ UNCHANGED <<pc, op, map_size, tile_size, atlas_texture, atlas_tile_size_factor,
                   user_data, projection, force_n_tiles, padding, force_underhangs,
                   build_state, forced>>

\* mutant: dominance is not switched off
with_perspective_overhang_keeps_dominance ==
    /\ pc = "Configuring"
    /\ perspective_overhangs' = TRUE
    /\ perspective_underhangs' = TRUE
    /\ last_overhang_setter' = "with_perspective_overhang"
    /\ UNCHANGED <<pc, op, map_size, tile_size, atlas_texture, atlas_tile_size_factor,
                   user_data, projection, force_n_tiles, padding, dominance_overhangs,
                   force_underhangs, build_state, forced>>

\* mutant: the underhang directions go back to the default
with_perspective_overhang_resets_underhangs ==
    /\ pc = "Configuring"
    /\ dominance_overhangs' = FALSE
    /\ perspective_overhangs' = TRUE
    /\ perspective_underhangs' = TRUE
    /\ force_underhangs' = <<>>
    /\ last_overhang_setter' = "with_perspective_overhang"
    /\ UNCHANGED <<pc, op, map_size, tile_size, atlas_texture, atlas_tile_size_factor,
                   user_data, projection, force_n_tiles, padding, build_state, forced>>

with_perspective_overhang ==
    /\ pc = "Configuring"
    /\ dominance_overhangs' = FALSE
    /\ perspective_overhangs' = TRUE
    /\ perspective_underhangs' = TRUE
    /\ last_overhang_setter' = "with_perspective_overhang"
    /\ UNCHANGED <<pc, op, map_size, tile_size, atlas_texture, atlas_tile_size_factor,
                   user_data, projection, force_n_tiles, padding, force_underhangs,
                   build_state, forced>>

with_forced_underhangs(underhangs) ==
    /\ pc = "Configuring"
    /\ dominance_overhangs' = FALSE
    /\ perspective_underhangs' = TRUE
    /\ perspective_overhangs' = TRUE
    /\ force_underhangs' = underhangs
    /\ last_overhang_setter' = "with_forced_underhangs"
    /\ forced' = underhangs
    /\ UNCHANGED <<pc, op, map_size, tile_size, atlas_texture, atlas_tile_size_factor,
                   user_data, projection, force_n_tiles, padding, build_state>>

with_overhangs(dominance, perspective_under, perspective_over) ==
    /\ pc = "Configuring"
    /\ dominance_overhangs' = dominance
    /\ perspective_underhangs' = perspective_under
    /\ perspective_overhangs' = perspective_over
    /\ last_overhang_setter' = "with_overhangs"
    /\ UNCHANGED <<pc, op, map_size, tile_size, atlas_texture, atlas_tile_size_factor,
                   user_data, projection, force_n_tiles, padding, force_underhangs,
                   build_state, forced>>

(***************************************************************************)
(* The padding formula of the atlas layout, per axis (1 is x, 2 is y):     *)
(* (atlas - topleft - bottomright + inner) / (tile * factor + inner)       *)
(***************************************************************************)
FormulaIntegral(axis) ==
    LET num == atlas_texture[axis] - padding.topleft[axis]
               - padding.bottomright[axis] + padding.inner[axis]
        den == tile_size[axis] * atlas_tile_size_factor + padding.inner[axis]
    IN  den # 0 /\ num % den = 0

LayoutInferenceFails == force_n_tiles = <<>> /\ \E axis \in {1, 2} : ~FormulaIntegral(axis)

(***************************************************************************)
(* MapIndexerMut::set, the bounded indexer handed to the initializer.      *)
(* A coordinate outside the grid or outside the buffer is an access error: *)
(* that call fails, nothing is written, the caller goes on.                *)
(***************************************************************************)
CellIndex(size, x, y) == y * size[1] + x

InBounds(buf, size, x, y) ==
    /\ x < size[1]
    /\ y < size[2]
    /\ CellIndex(size, x, y) < Len(buf)

IndexerSet(buf, size, x, y, v) ==
    IF InBounds(buf, size, x, y)
    THEN [buf EXCEPT ![CellIndex(size, x, y) + 1] = v]
    ELSE buf

Record(w, x, y, v) == {t \in w : ~(t[1] = x /\ t[2] = y)} \cup {<<x, y, v>>}

\* the callbacks build_and_set is called with
Apply(f, x, y) == IF f = "ramp" THEN 10 * y + x + 1 ELSE 7

(***************************************************************************)
(* Build entry points.  `self` is taken by value: a builder builds once.   *)
(***************************************************************************)
BuilderOwned == pc = "Configuring"

build ==
    /\ BuilderOwned
    /\ op' = "build"
    /\ pc' = "resize"
    /\ builds' = builds + 1
    /\ UNCHANGED <<config, history, map_texture, inverse_projection, world_size,
                   sx, sy, fn, cursor, n_sets, steps, init_calls, init_returned,
                   filled, written>>

build_and_initialize ==
    /\ BuilderOwned
    /\ op' = "build_and_initialize"
    /\ pc' = "resize"
    /\ builds' = builds + 1
    /\ UNCHANGED <<config, history, map_texture, inverse_projection, world_size,
                   sx, sy, fn, cursor, n_sets, steps, init_calls, init_returned,
                   filled, written>>

build_and_set(f) ==
    /\ BuilderOwned
    /\ op' = "build_and_set"
    /\ fn' = f
    /\ sx' = map_size[1]
    /\ sy' = map_size[2]
    /\ pc' = "resize"
    /\ builds' = builds + 1
    /\ UNCHANGED <<config, history, map_texture, inverse_projection, world_size,
                   cursor, n_sets, steps, init_calls, init_returned, filled, written>>

(***************************************************************************)
(* build_and_initialize, step by step                                      *)
(***************************************************************************)
\* mutant: the new cells are not zero
resize_nonzero_fill ==
    /\ pc = "resize"
    /\ map_texture' = Resize(map_texture,
                             ToNat(WrappingMul(map_size[1], map_size[2])),
                             FillValue + 1)
    /\ steps' = Append(steps, "resize")
    /\ pc' = "initializer"
    /\ UNCHANGED <<op, config, history, inverse_projection, world_size, sx, sy, fn,
                   cursor, n_sets, builds, init_calls, init_returned, filled, written>>

\* lines 159-162; where x * y leaves u32 this is the wrapping outcome
resize ==
    /\ pc = "resize"
    /\ map_texture' = Resize(map_texture,
                             ToNat(WrappingMul(map_size[1], map_size[2])),
                             FillValue)
    /\ steps' = Append(steps, "resize")
    /\ pc' = "initializer"
    /\ UNCHANGED <<op, config, history, inverse_projection, world_size, sx, sy, fn,
                   cursor, n_sets, builds, init_calls, init_returned, filled, written>>

\* line 160 where the build checks overflow: the multiplication panics
resize_overflow_panic ==
    /\ pc = "resize"
    /\ MulOverflows(map_size[1], map_size[2])
    /\ pc' = "panicked"
    /\ UNCHANGED <<op, config, history, build_state>>

FirstCell == IF sx = 0 \/ sy = 0 THEN Done ELSE <<0, 0>>

NextCell(c) ==
    IF c[1] + 1 < sx THEN <<c[1] + 1, c[2]>>
    ELSE IF c[2] + 1 < sy THEN <<0, c[2] + 1>>
    ELSE Done

\* mutant: the initializer is dropped without being called
call_initializer_skipped ==
    /\ pc = "initializer"
    /\ pc' = "update_inverse_projection"
    /\ UNCHANGED <<op, config, history, build_state>>

\* line 164: the initializer is entered with the indexer over the map
call_initializer ==
    /\ pc = "initializer"
    /\ init_calls' = init_calls + 1
    /\ steps' = Append(steps, "initializer")
    /\ cursor' = IF op = "build_and_set" THEN FirstCell ELSE Done
    /\ pc' = "in_initializer"
    /\ UNCHANGED <<op, config, history, map_texture, inverse_projection, world_size,
                   sx, sy, fn, n_sets, builds, init_returned, filled, written>>

\* build's closure |_| {}
noop_initializer ==
    /\ pc = "in_initializer"
    /\ op = "build"
    /\ init_returned' = TRUE
    /\ pc' = "update_inverse_projection"
    /\ UNCHANGED <<op, config, history, map_texture, inverse_projection, world_size,
                   sx, sy, fn, cursor, n_sets, steps, builds, init_calls, filled,
                   written>>

\* a caller's initializer: any indexer calls, here sets, then it returns
initializer_set(x, y, v) ==
    /\ pc = "in_initializer"
    /\ op = "build_and_initialize"
    /\ n_sets < MaxSets
    /\ n_sets' = n_sets + 1
    /\ map_texture' = IndexerSet(map_texture, map_size, x, y, v)
    /\ written' = IF InBounds(map_texture, map_size, x, y)
                  THEN Record(written, x, y, v) ELSE written
    /\ UNCHANGED <<pc, op, config, history, inverse_projection, world_size, sx, sy,
                   fn, cursor, steps, builds, init_calls, init_returned, filled>>

initializer_return ==
    /\ pc = "in_initializer"
    /\ op = "build_and_initialize"
    /\ init_returned' = TRUE
    /\ n_sets' = 0
    /\ pc' = "update_inverse_projection"
    /\ UNCHANGED <<op, config, history, map_texture, inverse_projection, world_size,
                   sx, sy, fn, cursor, steps, builds, init_calls, filled, written>>

\* lines 183-187, one iteration whose set is accepted
fill_cell ==
    /\ pc = "in_initializer"
    /\ op = "build_and_set"
    /\ cursor # Done
    /\ InBounds(map_texture, map_size, cursor[1], cursor[2])
    /\ LET v == Apply(fn, cursor[1], cursor[2]) IN
          /\ map_texture' = IndexerSet(map_texture, map_size, cursor[1], cursor[2], v)
          /\ written' = Record(written, cursor[1], cursor[2], v)
    /\ filled' = Append(filled, cursor)
    /\ cursor' = NextCell(cursor)
    /\ UNCHANGED <<pc, op, config, history, inverse_projection, world_size, sx, sy,
                   fn, n_sets, steps, builds, init_calls, init_returned>>

\* lines 183-187 from an iteration whose set is rejected: the cell index grows
\* along the loop, so every later set is rejected too and the remaining
\* iterations leave the buffer as it is
fill_rejected_tail ==
    /\ pc = "in_initializer"
    /\ op = "build_and_set"
    /\ cursor # Done
    /\ ~InBounds(map_texture, map_size, cursor[1], cursor[2])
    /\ cursor' = Done
    /\ UNCHANGED <<pc, op, config, history, map_texture, inverse_projection,
                   world_size, sx, sy, fn, n_sets, steps, builds, init_calls,
                   init_returned, filled, written>>

\* line 188: the loop is over, the closure returns
fill_return ==
    /\ pc = "in_initializer"
    /\ op = "build_and_set"
    /\ cursor = Done
    /\ init_returned' = TRUE
    /\ pc' = "update_inverse_projection"
    /\ UNCHANGED <<op, config, history, map_texture, inverse_projection, world_size,
                   sx, sy, fn, cursor, n_sets, steps, builds, init_calls, filled,
                   written>>

\* mutant: lines 164 and 166 swapped, the inverse is computed before the
\* initializer is called
update_inverse_projection_first ==
    /\ pc = "initializer"
    /\ inverse_projection = "unset"
    /\ inverse_projection' = <<"inverse", projection>>
    /\ steps' = Append(steps, "update_inverse_projection")
    /\ UNCHANGED <<pc, op, config, history, map_texture, world_size, sx, sy, fn, cursor,
                   n_sets, builds, init_calls, init_returned, filled, written>>

\* line 166
update_inverse_projection ==
    /\ pc = "update_inverse_projection"
    /\ inverse_projection' = <<"inverse", projection>>
    /\ steps' = Append(steps, "update_inverse_projection")
    /\ pc' = "update_world_size"
    /\ UNCHANGED <<op, config, history, map_texture, world_size, sx, sy, fn, cursor,
                   n_sets, builds, init_calls, init_returned, filled, written>>

\* line 167
update_world_size ==
    /\ pc = "update_world_size"
    /\ world_size' = <<"world", map_size, tile_size, projection>>
    /\ steps' = Append(steps, "update_world_size")
    /\ pc' = "return"
    /\ UNCHANGED <<op, config, history, map_texture, inverse_projection, sx, sy, fn,
                   cursor, n_sets, builds, init_calls, init_returned, filled, written>>

\* mutant: the atlas layout is validated before the map is handed out
return_map_validating ==
    /\ pc = "return"
    /\ pc' = IF LayoutInferenceFails THEN "panicked" ELSE "Finalized"
    /\ UNCHANGED <<op, config, history, build_state>>

\* line 169: the map is moved out to the caller
return_map ==
    /\ pc = "return"
    /\ pc' = "Finalized"
    /\ UNCHANGED <<op, config, history, build_state>>

(***************************************************************************)
(* Specification                                                           *)
(***************************************************************************)
Coords == 0 .. MaxDim

Next ==
    \/ \E factor \in Factors : with_atlas_tile_size_factor(factor)
    \/ \E data \in UserDatas : with_user_data(data)
    \/ \E p \in Projections : with_projection(p)
    \/ \E n \in NTiles : with_n_tiles(n)
    \/ \E pd \in Paddings : with_padding(pd.inner, pd.topleft, pd.bottomright)
    \/ with_dominance_overhang
    \/ with_perspective_overhang
    \/ \E u \in Underhangs : with_forced_underhangs(u)
    \/ \E d \in BOOLEAN, pu \in BOOLEAN, po \in BOOLEAN : with_overhangs(d, pu, po)
    \/ build
    \/ build_and_initialize
    \/ \E f \in Fns : build_and_set(f)
    \/ resize
    \/ resize_overflow_panic
    \/ call_initializer
    \/ noop_initializer
    \/ \E x \in Coords, y \in Coords, v \in TileVals : initializer_set(x, y, v)
    \/ initializer_return
    \/ fill_cell
    \/ fill_rejected_tail
    \/ fill_return
    \/ update_inverse_projection
    \/ update_world_size
    \/ return_map

Spec == Init /\ [][Next]_vars

(***************************************************************************)
(* Properties                                                              *)
(***************************************************************************)
AllSteps == <<"resize", "initializer", "update_inverse_projection", "update_world_size">>

IsPrefix(s, t) == Len(s) <= Len(t) /\ s = SubSeq(t, 1, Len(s))

\* the grid coordinate of buffer position i (from 1) in row-major order
CoordOf(i) == <<(i - 1) % map_size[1], (i - 1) \div map_size[1]>>

\* C1: dominance mode and perspective mode are never active together.
C1_ModesExclusive ==
    ~(dominance_overhangs /\ (perspective_overhangs \/ perspective_underhangs))

\* C2 as stated: a map built with no overhang setter called has all three
\* overhang flags false.
C2_DefaultNone ==
    (pc = "Finalized" /\ last_overhang_setter = "")
        => ~dominance_overhangs /\ ~perspective_overhangs /\ ~perspective_underhangs

\* C2 amended: a map built with no overhang setter called is in perspective
\* mode: dominance off, perspective overhangs and underhangs on.
C2_DefaultPerspective ==
    (pc = "Finalized" /\ last_overhang_setter = "")
        => ~dominance_overhangs /\ perspective_overhangs /\ perspective_underhangs

\* C2 witness: a map built after with_padding only, no overhang setter called.
C2_Witness ==
    /\ pc = "Finalized"
    /\ last_overhang_setter = ""
    /\ padding # ZeroPadding
    /\ perspective_overhangs

C4_StepOrder ==
    /\ IsPrefix(steps, AllSteps)
    /\ pc = "Finalized" => steps = AllSteps
    /\ init_calls > 0 =>
          /\ steps # <<>> /\ steps[1] = "resize"
          /\ Len(map_texture) = ToNat(WrappingMul(map_size[1], map_size[2]))
    /\ inverse_projection # "unset" => init_returned
    /\ world_size # "unset" => init_returned /\ inverse_projection # "unset"

\* C4 witness: a finished build whose initializer wrote a cell.
C4_Witness ==
    /\ pc = "Finalized"
    /\ steps = AllSteps
    /\ written # {}
    /\ world_size # "unset"

\* C5: the initializer is invoked exactly once per build and has returned
\* before the map is handed out; once a build was called the builder is gone,
\* no build entry point can be called again.
C5_InitializerOnce ==
    /\ init_calls <= 1
    /\ builds <= 1
    /\ pc \in {"update_inverse_projection", "update_world_size", "return", "Finalized"}
          => init_calls = 1 /\ init_returned
    /\ pc = "Finalized" => builds = 1
    /\ builds >= 1 =>
          ~ENABLED (build \/ build_and_initialize \/ \E f \in Fns : build_and_set(f))

\* C5 witness: a build_and_set build that finished, its closure called once.
C5_Witness == pc = "Finalized" /\ op = "build_and_set" /\ init_calls = 1 /\ filled # <<>>

\* C6: from the invocation of the initializer on, the tile buffer has exactly
\* width * height cells, the mathematical product.
C6_BufferIsProduct ==
    init_calls > 0 =>
        Digits(Len(map_texture), 2 * NDigits) = FullProduct(map_size[1], map_size[2])

\* C7: a map built by build_and_set(f) has a cell for every grid coordinate,
\* each cell holds f of its coordinate, and f was called once per coordinate in
\* row-major order.
C7_FillEveryCell ==
    (pc = "Finalized" /\ op = "build_and_set") =>
        /\ Digits(Len(map_texture), 2 * NDigits) = FullProduct(map_size[1], map_size[2])
        /\ \A i \in 1 .. Len(map_texture) :
              map_texture[i] = Apply(fn, CoordOf(i)[1], CoordOf(i)[2])
        /\ filled = [i \in 1 .. Len(map_texture) |-> CoordOf(i)]

\* C8: after with_dominance_overhang dominance is on and both perspective flags
\* are off; after with_perspective_overhang or with_forced_underhangs dominance
\* is off and both perspective flags are on.
C8_SettersSwitchModes ==
    /\ last_overhang_setter = "with_dominance_overhang" =>
          dominance_overhangs /\ ~perspective_overhangs /\ ~perspective_underhangs
    /\ last_overhang_setter \in {"with_perspective_overhang", "with_forced_underhangs"} =>
          ~dominance_overhangs /\ perspective_overhangs /\ perspective_underhangs

\* C8 witness: the builder right after with_dominance_overhang.
C8_Witness ==
    /\ pc = "Configuring"
    /\ last_overhang_setter = "with_dominance_overhang"
    /\ dominance_overhangs

\* C9: in the returned map every cell the initializer did not write holds 0 and
\* every cell it wrote holds the value written last, at position y * width + x.
C9_CellsAsWritten ==
    pc = "Finalized" =>
        \A i \in 1 .. Len(map_texture) :
            LET c == CoordOf(i)
                w == {t \in written : t[1] = c[1] /\ t[2] = c[2]}
            IN  /\ w = {} => map_texture[i] = 0
                /\ \A t \in w : map_texture[i] = t[3]

\* C9 witness: the 2x2 map whose initializer set only (1, 0) to 5.
C9_Witness ==
    /\ pc = "Finalized"
    /\ op = "build_and_initialize"
    /\ map_size = <<2, 2>>
    /\ written = {<<1, 0, 5>>}
    /\ map_texture = <<0, 5, 0, 0>>

\* C10: force_underhangs is whatever with_forced_underhangs was given last (the
\* default if it never ran); no other setter and no build step changes it.
C10_ForcedUnderhangsKept == force_underhangs = forced

\* C10 witness: a built map that carries the forced directions although
\* with_perspective_overhang was called after with_forced_underhangs.
C10_Witness ==
    /\ pc = "Finalized"
    /\ last_overhang_setter = "with_perspective_overhang"
    /\ force_underhangs \in Underhangs

====
